---- MODULE Spec2Model ----
(***************************************************************************)
(* The census backend: an express server that serves department and        *)
(* municipality boundaries as GeoJSON feature collections read from        *)
(* GeoPackage datasets.  The repository holds three revisions of the        *)
(* server:                                                                  *)
(*   index.js   departments preloaded at startup, municipalities lazily    *)
(*              loaded from local files into a 5 minute memory cache;      *)
(*   part_000   departments and municipalities both lazily cached;         *)
(*   part_001   no cache, municipalities downloaded from remote storage    *)
(*              into a temp file by an async handler.                      *)
(* The variable rev fixes which revision is running.                       *)
(***************************************************************************)
EXTENDS Integers, Sequences, FiniteSets, TLC

VARIABLES
    rev,          \* the revision that is running
    now,          \* Date.now(), in milliseconds
    cache,        \* the cache object: departments, municipalities, lastUpdated
    departmentDb, \* the module-level department dataset handle
    tmpFiles,     \* tmp_municipality_<code>.gpkg, per department code
    reqs,         \* the in-flight requests of the async municipalities handler
    last,         \* observation: the request that completed last
    afterClear    \* observation: per code, the requests since the last DELETE /api/cache

vars == <<rev, now, cache, departmentDb, tmpFiles, reqs, last, afterClear>>

----------------------------------------------------------------------------
(* Bounds of the model and constants of the program *)

CACHE_EXPIRY == 5 * 60 * 1000

\* The clock advances in steps of half the expiry time, so that an entry is
\* seen at the ages 0, CACHE_EXPIRY / 2 (fresh) and CACHE_EXPIRY (stale).
TickMs == CACHE_EXPIRY \div 2

\* The clock runs from TickMs to (MaxTicks + 1) * TickMs.
MaxTicks == 3

\* Concurrent requests of the async handler.
MaxReqs == 2

Revisions == {"index.js", "part_000", "part_001"}

Codes == {"05", "99"}

ReqIds == 1..MaxReqs

----------------------------------------------------------------------------
(* Datasets and their materialization *)

\* An optional value: <<>> is null/undefined/"no such file", <<v>> holds v.
None == <<>>

Some(v) == <<v>>

Geometry(n) == [wkbType |-> "Point", x |-> n, y |-> n + 1]

Record(n) == [fields |-> [id |-> n], geometry |-> Geometry(n)]

\* The layers a dataset file can hold (the first layer's records, in order).
Layers == {<<Record(1)>>, <<Record(2), Record(1)>>}

\* feature.getGeometry().toJSON(): the geometry as GeoJSON text, here its tokens.
toJSON(g) == <<"type", g.wkbType, "coordinates", g.x, g.y>>

\* JSON.parse of that text.
JSONparse(s) == [type |-> s[2], coordinates |-> <<s[4], s[5]>>]

RECURSIVE readFeaturesFromLayer(_)
readFeaturesFromLayer(layer) ==
    IF layer = <<>> THEN <<>>
    ELSE <<[type |-> "Feature",
            properties |-> Head(layer).fields,
            geometry |-> JSONparse(toJSON(Head(layer).geometry))]>>
         \o readFeaturesFromLayer(Tail(layer))

FeatureCollection(features) == [type |-> "FeatureCollection", features |-> features]

----------------------------------------------------------------------------
(* The response object of one request *)

NoResponse == [status |-> 0, body |-> None, sends |-> 0]

\* res.status(s).json(b): the first call sends the response; a later call on the
\* same response throws ERR_HTTP_HEADERS_SENT and what the client got stays.
Send(res, status, body) ==
    IF res.sends = 0
    THEN [status |-> status, body |-> Some(body), sends |-> 1]
    ELSE [res EXCEPT !.sends = 2]

----------------------------------------------------------------------------
(* The cache *)

EmptyMap == [c \in {} |-> None]

EmptyCache == [departments |-> None, municipalities |-> EmptyMap, lastUpdated |-> None]

\* cache.municipalities.get(code): undefined when the map has no such key.
MapGet(m, code) == IF code \in DOMAIN m THEN Some(m[code]) ELSE None

\* MapSet that does not replace an entry the map already has.
MapSet_KeepsOld(m, code, entry) ==
    IF code \in DOMAIN m THEN m
    ELSE [c \in DOMAIN m \cup {code} |-> IF c = code THEN entry ELSE m[c]]

\* MapSet that forgets the entries of all other codes.
MapSet_DropsOthers(m, code, entry) == [c \in {code} |-> entry]

\* cache.municipalities.set(code, entry)
MapSet(m, code, entry) ==
    [c \in DOMAIN m \cup {code} |-> IF c = code THEN entry ELSE m[c]]

\* Fresh with the comparison turned around.
Fresh_Reversed(t, timestamp) == t - timestamp > CACHE_EXPIRY

\* Date.now() - timestamp < CACHE_EXPIRY
Fresh(t, timestamp) == t - timestamp < CACHE_EXPIRY

\* What a handler run yields: the cache after it, the response, whether it
\* took the production path, whether it opened a dataset and closed it again,
\* and the timestamp of the value it answered with.
Outcome(c, res, produced, opened, closed, servedAt) ==
    [cache |-> c, res |-> res, produced |-> produced, opened |-> opened,
     closed |-> closed, servedAt |-> servedAt]

\* The failure points of a dataset read.
Faults == {"none", "open", "layer", "read", "close"}

\* The error a failure point raises, as err.message.
Message(fault) == IF fault = "open" THEN "cannot open dataset" ELSE "dataset error"

----------------------------------------------------------------------------
(* index.js *)

\* The departments preload at module load: open, read, store, close.
index_preload(file, fault, t) ==
    IF file = None \/ fault = "open"
    THEN [cache |-> EmptyCache, departmentDb |-> "undefined"]
    ELSE IF fault \in {"layer", "read"}
    THEN [cache |-> EmptyCache, departmentDb |-> "open"]
    ELSE [cache |-> [EmptyCache EXCEPT
                        !.departments =
                            Some(FeatureCollection(readFeaturesFromLayer(file[1]))),
                        !.lastUpdated = Some(t)],
          departmentDb |-> IF fault = "close" THEN "open" ELSE "closed"]

\* app.get("/api/departments")
index_departments(c, t) ==
    IF c.departments = None
    THEN Outcome(c, Send(NoResponse, 500, [error |-> "Departments data not available"]),
                 FALSE, FALSE, FALSE, t)
    ELSE Outcome(c, Send(NoResponse, 200, c.departments[1]),
                 FALSE, FALSE, FALSE, c.lastUpdated[1])

\* index_municipalities with one of three bugs: "sliding" restamps the entry on
\* a hit, "keeps" stores a re-produced value under the old entry's timestamp,
\* "evicts" deletes a stale entry before producing.
index_municipalities_Bug(c, departmentCode, t, muniFile, fault, bug) ==
    LET cached == MapGet(c.municipalities, departmentCode)
        failed == Send(NoResponse, 500, [error |-> "Failed to read municipality data",
                                         details |-> Message(fault)])
        base   == IF bug = "evicts"
                  THEN [c EXCEPT !.municipalities =
                           [k \in DOMAIN @ \ {departmentCode} |-> @[k]]]
                  ELSE c
    IN  IF cached # None /\ t - cached[1].timestamp < CACHE_EXPIRY
        THEN Outcome(IF bug = "sliding"
                     THEN [c EXCEPT !.municipalities[departmentCode].timestamp = t]
                     ELSE c,
                     Send(NoResponse, 200, cached[1].data),
                     FALSE, FALSE, FALSE, cached[1].timestamp)
        ELSE IF muniFile = None
        THEN Outcome(base, Send(NoResponse, 404, [error |-> "Municipality data not found"]),
                     TRUE, FALSE, FALSE, t)
        ELSE IF fault = "open"
        THEN Outcome(base, failed, TRUE, FALSE, FALSE, t)
        ELSE IF fault \in {"layer", "read", "close"}
        THEN Outcome(base, failed, TRUE, TRUE, FALSE, t)
        ELSE LET geojson == FeatureCollection(readFeaturesFromLayer(muniFile[1]))
                 stamp   == IF bug = "keeps" /\ cached # None
                            THEN cached[1].timestamp ELSE t
                 stored  == [c EXCEPT !.municipalities =
                                [k \in DOMAIN @ \cup {departmentCode} |->
                                    IF k = departmentCode
                                    THEN [data |-> geojson, timestamp |-> stamp]
                                    ELSE @[k]]]
             IN  Outcome(stored, Send(NoResponse, 200, geojson), TRUE, TRUE, TRUE, t)

\* index_municipalities with a sliding expiry: a hit restamps the entry.
index_municipalities_Sliding(c, departmentCode, t, muniFile, fault) ==
    index_municipalities_Bug(c, departmentCode, t, muniFile, fault, "sliding")

\* index_municipalities that keeps the timestamp of the entry it replaces.
index_municipalities_KeepsTimestamp(c, departmentCode, t, muniFile, fault) ==
    index_municipalities_Bug(c, departmentCode, t, muniFile, fault, "keeps")

\* index_municipalities that deletes a stale entry before it produces.
index_municipalities_EvictsStale(c, departmentCode, t, muniFile, fault) ==
    index_municipalities_Bug(c, departmentCode, t, muniFile, fault, "evicts")

\* index_municipalities with the entry stored before the dataset is read, so that
\* a failing read leaves an entry behind.
index_municipalities_StoreFirst(c, departmentCode, t, muniFile, fault) ==
    LET cached == MapGet(c.municipalities, departmentCode)
        failed == Send(NoResponse, 500, [error |-> "Failed to read municipality data",
                                         details |-> Message(fault)])
    IN  IF cached # None /\ t - cached[1].timestamp < CACHE_EXPIRY
        THEN Outcome(c, Send(NoResponse, 200, cached[1].data),
                     FALSE, FALSE, FALSE, cached[1].timestamp)
        ELSE IF muniFile = None
        THEN Outcome(c, Send(NoResponse, 404, [error |-> "Municipality data not found"]),
                     TRUE, FALSE, FALSE, t)
        ELSE LET geojson == FeatureCollection(readFeaturesFromLayer(muniFile[1]))
                 stored  == [c EXCEPT !.municipalities =
                                MapSet(@, departmentCode,
                                       [data |-> geojson, timestamp |-> t])]
             IN  IF fault = "open"
                 THEN Outcome(stored, failed, TRUE, FALSE, FALSE, t)
                 ELSE IF fault \in {"layer", "read", "close"}
                 THEN Outcome(stored, failed, TRUE, TRUE, FALSE, t)
                 ELSE Outcome(stored, Send(NoResponse, 200, geojson),
                              TRUE, TRUE, TRUE, t)

\* app.get("/api/municipalities/:departmentCode")
index_municipalities(c, departmentCode, t, muniFile, fault) ==
    LET cached == MapGet(c.municipalities, departmentCode)
        failed == Send(NoResponse, 500, [error |-> "Failed to read municipality data",
                                         details |-> Message(fault)])
    IN  IF cached # None /\ Fresh(t, cached[1].timestamp)
        THEN Outcome(c, Send(NoResponse, 200, cached[1].data),
                     FALSE, FALSE, FALSE, cached[1].timestamp)
        ELSE IF muniFile = None
        THEN Outcome(c, Send(NoResponse, 404, [error |-> "Municipality data not found"]),
                     TRUE, FALSE, FALSE, t)
        ELSE IF fault = "open"
        THEN Outcome(c, failed, TRUE, FALSE, FALSE, t)
        ELSE IF fault \in {"layer", "read", "close"}
        THEN Outcome(c, failed, TRUE, TRUE, FALSE, t)
        ELSE LET geojson == FeatureCollection(readFeaturesFromLayer(muniFile[1]))
                 stored  == [c EXCEPT !.municipalities =
                                MapSet(@, departmentCode,
                                       [data |-> geojson, timestamp |-> t])]
             IN  Outcome(stored, Send(NoResponse, 200, geojson), TRUE, TRUE, TRUE, t)

\* clearCache without cache.municipalities.clear().
clearCache_KeepsMunicipalities(c) ==
    [c EXCEPT !.departments = None, !.lastUpdated = None]

\* app.delete("/api/cache")
clearCache(c) ==
    [c EXCEPT !.departments = None, !.municipalities = EmptyMap, !.lastUpdated = None]

----------------------------------------------------------------------------
(* part_000 *)

\* The department dataset is opened at module load and kept open.
part_000_startup(file, fault) ==
    [cache |-> EmptyCache,
     departmentDb |-> IF file = None \/ fault = "open" THEN "undefined" ELSE "open"]

\* app.get("/api/departments")
part_000_departments(c, t, db, file, fault) ==
    IF c.departments # None /\ c.lastUpdated # None /\ c.lastUpdated[1] # 0
       /\ Fresh(t, c.lastUpdated[1])
    THEN Outcome(c, Send(NoResponse, 200, c.departments[1]),
                 FALSE, FALSE, FALSE, c.lastUpdated[1])
    ELSE IF db # "open" \/ fault \in {"layer", "read"}
    THEN Outcome(c, Send(NoResponse, 500, [error |-> "Failed to read departments"]),
                 TRUE, FALSE, FALSE, t)
    ELSE LET stored == [c EXCEPT
                           !.departments =
                               Some(FeatureCollection(readFeaturesFromLayer(file[1]))),
                           !.lastUpdated = Some(t)]
         IN  Outcome(stored, Send(NoResponse, 200, stored.departments[1]),
                     TRUE, FALSE, FALSE, t)

\* app.get("/api/municipalities/:departmentCode")
part_000_municipalities(c, departmentCode, t, muniFile, fault) ==
    LET failed == Send(NoResponse, 500, [error |-> "Failed to read municipality data",
                                         details |-> Message(fault)])
    IN  IF departmentCode \in DOMAIN c.municipalities
           /\ Fresh(t, c.municipalities[departmentCode].timestamp)
        THEN Outcome(c, Send(NoResponse, 200, c.municipalities[departmentCode].data),
                     FALSE, FALSE, FALSE, c.municipalities[departmentCode].timestamp)
        ELSE IF muniFile = None
        THEN Outcome(c, Send(NoResponse, 404,
                             [error |-> "Municipality data not found for this department"]),
                     TRUE, FALSE, FALSE, t)
        ELSE IF fault = "open"
        THEN Outcome(c, failed, TRUE, FALSE, FALSE, t)
        ELSE IF fault \in {"layer", "read"}
        THEN Outcome(c, failed, TRUE, TRUE, FALSE, t)
        ELSE LET features == readFeaturesFromLayer(muniFile[1])
                 stored   == [c EXCEPT !.municipalities =
                                 MapSet(@, departmentCode,
                                        [data |-> FeatureCollection(features),
                                         timestamp |-> t])]
                 sent     == Send(NoResponse, 200, FeatureCollection(features))
             IN  IF fault = "close"
                 THEN Outcome(stored, Send(sent, 500,
                                           [error |-> "Failed to read municipality data",
                                            details |-> Message(fault)]),
                              TRUE, TRUE, FALSE, t)
                 ELSE Outcome(stored, sent, TRUE, TRUE, TRUE, t)

----------------------------------------------------------------------------
(* part_001 *)

\* app.get("/api/departments"): no cache, every request reads the dataset.
part_001_departments(c, t, db, file, fault) ==
    IF db # "open" \/ fault \in {"layer", "read"}
    THEN Outcome(c, Send(NoResponse, 500, [error |-> "Failed to read departments"]),
                 TRUE, FALSE, FALSE, t)
    ELSE Outcome(c, Send(NoResponse, 200,
                         FeatureCollection(readFeaturesFromLayer(file[1]))),
                 TRUE, FALSE, FALSE, t)

\* The failure points of the municipalities handler after the download.
TempFaults == Faults \cup {"write", "unlink"}

\* What the handler's last, synchronous part yields: the temp file after it, the
\* response, and whether the temp file was written and the dataset opened, closed.
TempOutcome(tmp, res, wrote, opened, closed) ==
    [tmp |-> tmp, res |-> res, wrote |-> wrote, opened |-> opened, closed |-> closed]

\* The handler's last part when it opens what is at the temp path before its
\* own bytes have replaced it.
part_001_materialize_ReadsOldTemp(buffer, tmp, fault) ==
    LET onDisk == IF tmp # None THEN tmp ELSE Some(buffer)
    IN  IF fault = "open"
        THEN TempOutcome(Some(buffer),
                         Send(NoResponse, 500,
                              [error |-> "Failed to read municipality data",
                               details |-> Message(fault)]),
                         TRUE, FALSE, FALSE)
        ELSE TempOutcome(None,
                         Send(NoResponse, 200,
                              FeatureCollection(readFeaturesFromLayer(onDisk[1]))),
                         TRUE, TRUE, TRUE)

\* The municipalities handler from fs.writeFileSync to the end of the handler:
\* write the temp file, open it, read the features, respond, close, unlink.
part_001_materialize(buffer, tmp, fault) ==
    LET failed  == Send(NoResponse, 500, [error |-> "Failed to read municipality data",
                                          details |-> Message(fault)])
        written == Some(buffer)
        sent    == Send(NoResponse, 200,
                        FeatureCollection(readFeaturesFromLayer(written[1])))
        again   == Send(sent, 500, [error |-> "Failed to read municipality data",
                                    details |-> Message(fault)])
    IN  IF fault = "write"
        THEN TempOutcome(tmp, failed, FALSE, FALSE, FALSE)
        ELSE IF fault = "open"
        THEN TempOutcome(written, failed, TRUE, FALSE, FALSE)
        ELSE IF fault \in {"layer", "read"}
        THEN TempOutcome(written, failed, TRUE, TRUE, FALSE)
        ELSE IF fault = "close"
        THEN TempOutcome(written, again, TRUE, TRUE, FALSE)
        ELSE IF fault = "unlink"
        THEN TempOutcome(written, again, TRUE, TRUE, TRUE)
        ELSE TempOutcome(None, sent, TRUE, TRUE, TRUE)

\* The catch block when the fetch or the body read fails.
part_001_failed(cause) ==
    Send(NoResponse, 500, [error |-> "Failed to read municipality data",
                           details |-> cause])

----------------------------------------------------------------------------
(* Observations *)

\* The request that completed last: what the client got, and what the handler
\* did.  found tells whether the dataset the handler looked for (the local file,
\* the remote object) was there: "yes", "no", or "unchecked" when it did not look.
\* priorAge is the age the key's entry had when the request arrived (-1: there
\* was none), stored tells whether the request changed the cache.
Observe(op, code, res, produced, found, opened, closed, age, wrote, tmpExists) ==
    [op |-> op, code |-> code, status |-> res.status, body |-> res.body,
     sends |-> res.sends, produced |-> produced, found |-> found,
     opened |-> opened, closed |-> closed, age |-> age, wrote |-> wrote,
     tmpExists |-> tmpExists, priorAge |-> -1, stored |-> FALSE]

\* The age of the entry of a key (the departments value for op "departments").
EntryAge(c, op, code, t) ==
    IF op = "departments"
    THEN IF c.departments # None /\ c.lastUpdated # None
         THEN t - c.lastUpdated[1] ELSE -1
    ELSE IF code \in DOMAIN c.municipalities
         THEN t - c.municipalities[code].timestamp ELSE -1

Found(out, file) ==
    IF ~out.produced THEN "unchecked" ELSE IF file = None THEN "no" ELSE "yes"

ObserveOutcome(op, code, c, out, file, t) ==
    [Observe(op, code, out.res, out.produced, Found(out, file), out.opened,
             out.closed, t - out.servedAt, FALSE, FALSE)
        EXCEPT !.priorAge = EntryAge(c, op, code, t),
               !.stored = (out.cache # c)]

NoRequests == [armed |-> FALSE, first |-> None, firstProduced |-> FALSE, prods |-> 0]

\* The requests for one code that was cached when DELETE /api/cache ran, from the
\* first one after the DELETE and for one expiry time: the time of the first,
\* whether it took the production path, and how many did (2 stands for two or
\* more).  Tracking ends when the first production fails.
Track(ac, out, t) ==
    IF ~ac.armed THEN ac
    ELSE IF ac.first # None /\ ~(t - ac.first[1] < CACHE_EXPIRY) THEN NoRequests
    ELSE IF ac.prods = 0 /\ out.produced /\ out.res.status # 200 THEN NoRequests
    ELSE [armed |-> TRUE,
          first |-> IF ac.first = None THEN Some(t) ELSE ac.first,
          firstProduced |-> IF ac.first = None THEN out.produced ELSE ac.firstProduced,
          prods |-> IF out.produced /\ ac.prods < 2 THEN ac.prods + 1 ELSE ac.prods]

----------------------------------------------------------------------------
(* The state machine.  What a request finds on disk or in the remote store is  *)
(* an input of the request: files and remote objects come, change and go      *)
(* between any two requests.                                                   *)

\* A dataset file or remote object: missing, or holding one of the layers.
Files == {None} \cup {Some(l) : l \in Layers}

Idle == [pc |-> "idle", code |-> "", buffer |-> None]

Startup(r, file, fault, t) ==
    IF r = "index.js" THEN index_preload(file, fault, t)
    ELSE part_000_startup(file, fault)

Init ==
    /\ rev \in Revisions
    /\ now = TickMs
    /\ \E file \in Files, fault \in Faults :
          /\ cache = Startup(rev, file, fault, now).cache
          /\ departmentDb = Startup(rev, file, fault, now).departmentDb
    /\ tmpFiles = [c \in Codes |-> None]
    /\ reqs = [r \in ReqIds |-> Idle]
    /\ last = Observe("startup", "", NoResponse, FALSE, "unchecked", FALSE, FALSE,
                      0, FALSE, FALSE)
    /\ afterClear = [c \in Codes |-> NoRequests]

\* Time passes.  part_001 never reads the clock.
Tick ==
    /\ rev # "part_001"
    /\ now < (MaxTicks + 1) * TickMs
    /\ now' = now + TickMs
    /\ UNCHANGED <<rev, cache, departmentDb, tmpFiles, reqs, last, afterClear>>

Departments(out, file) ==
    /\ cache' = out.cache
    /\ last' = ObserveOutcome("departments", "", cache, out, file, now)
    /\ UNCHANGED <<rev, now, departmentDb, tmpFiles, reqs, afterClear>>

Municipalities(code, out, file) ==
    /\ cache' = out.cache
    /\ last' = ObserveOutcome("municipalities", code, cache, out, file, now)
    /\ afterClear' = [afterClear EXCEPT ![code] = Track(@, out, now)]
    /\ UNCHANGED <<rev, now, departmentDb, tmpFiles, reqs>>

ClearCache ==
    /\ cache' = clearCache(cache)
    /\ last' = Observe("cache", "", Send(NoResponse, 200, [message |-> "Cache cleared"]),
                       FALSE, "unchecked", FALSE, FALSE, 0, FALSE, FALSE)
    /\ afterClear' = [c \in Codes |->
                         [NoRequests EXCEPT !.armed = c \in DOMAIN cache.municipalities]]
    /\ UNCHANGED <<rev, now, departmentDb, tmpFiles, reqs>>

IndexDepartments ==
    /\ rev = "index.js"
    /\ Departments(index_departments(cache, now), None)

IndexMunicipalities ==
    /\ rev = "index.js"
    /\ \E code \in Codes, file \in Files, fault \in Faults :
          Municipalities(code, index_municipalities(cache, code, now, file, fault), file)

IndexClearCache ==
    /\ rev = "index.js"
    /\ ClearCache

Part000Departments ==
    /\ rev = "part_000"
    /\ \E file \in Files \ {None}, fault \in {"none", "layer", "read"} :
          Departments(part_000_departments(cache, now, departmentDb, file, fault), file)

Part000Municipalities ==
    /\ rev = "part_000"
    /\ \E code \in Codes, file \in Files, fault \in Faults :
          Municipalities(code, part_000_municipalities(cache, code, now, file, fault),
                         file)

Part000ClearCache ==
    /\ rev = "part_000"
    /\ ClearCache

Part001Departments ==
    /\ rev = "part_001"
    /\ \E file \in Files \ {None}, fault \in {"none", "layer", "read"} :
          Departments(part_001_departments(cache, now, departmentDb, file, fault), file)

\* The async handler up to its first suspension point: await fetch(url).
Part001Start ==
    /\ rev = "part_001"
    /\ \E r \in ReqIds, code \in Codes :
          /\ reqs[r].pc = "idle"
          /\ reqs' = [reqs EXCEPT ![r] = [pc |-> "fetch", code |-> code, buffer |-> None]]
    /\ UNCHANGED <<rev, now, cache, departmentDb, tmpFiles, last, afterClear>>

\* The fetch settles: rejected, answered with a status that is not ok because
\* there is no such object, or answered ok, and then the handler suspends on
\* response.arrayBuffer().
Part001FetchDone ==
    /\ rev = "part_001"
    /\ \E r \in ReqIds, object \in Files, rejected \in BOOLEAN :
          /\ reqs[r].pc = "fetch"
          /\ IF rejected \/ object = None
             THEN /\ reqs' = [reqs EXCEPT ![r] = Idle]
                  /\ last' = Observe("municipalities", reqs[r].code,
                                     part_001_failed(IF object = None
                                                     THEN "Failed to fetch Municipality.gpkg"
                                                     ELSE "fetch failed"),
                                     TRUE, IF object = None THEN "no" ELSE "yes",
                                     FALSE, FALSE, 0, FALSE,
                                     tmpFiles[reqs[r].code] # None)
             ELSE /\ reqs' = [reqs EXCEPT ![r].pc = "body", ![r].buffer = object]
                  /\ UNCHANGED last
    /\ UNCHANGED <<rev, now, cache, departmentDb, tmpFiles, afterClear>>

\* The body read settles, and the rest of the handler runs without suspending.
Part001BodyDone ==
    /\ rev = "part_001"
    /\ \E r \in ReqIds, fault \in TempFaults \cup {"body"} :
          LET code == reqs[r].code
              out  == part_001_materialize(reqs[r].buffer[1], tmpFiles[code], fault)
          IN  /\ reqs[r].pc = "body"
              /\ reqs' = [reqs EXCEPT ![r] = Idle]
              /\ IF fault = "body"
                 THEN /\ last' = Observe("municipalities", code,
                                         part_001_failed("body read failed"),
                                         TRUE, "yes", FALSE, FALSE, 0, FALSE,
                                         tmpFiles[code] # None)
                      /\ UNCHANGED tmpFiles
                 ELSE /\ tmpFiles' = [tmpFiles EXCEPT ![code] = out.tmp]
                      /\ last' = Observe("municipalities", code, out.res, TRUE, "yes",
                                         out.opened, out.closed, 0, out.wrote,
                                         out.tmp # None)
    /\ UNCHANGED <<rev, now, cache, departmentDb, afterClear>>

Next ==
    \/ Tick
    \/ IndexDepartments
    \/ IndexMunicipalities
    \/ IndexClearCache
    \/ Part000Departments
    \/ Part000Municipalities
    \/ Part000ClearCache
    \/ Part001Departments
    \/ Part001Start
    \/ Part001FetchDone
    \/ Part001BodyDone

Spec == Init /\ [][Next]_vars

----------------------------------------------------------------------------
(* The claims *)

GetOps == {"departments", "municipalities"}

\* C1: no GET request is answered with a feature collection that was produced
\* CACHE_EXPIRY or more before the request: a 200 answer is either freshly
\* produced (age 0) or a cached value younger than the expiry time.
C1_NoStaleAnswer ==
    (last.op \in GetOps /\ last.status = 200) => last.age < CACHE_EXPIRY

\* C2: the GET /api/departments that follows a DELETE /api/cache takes the
\* production path, and it is answered with the feature collection unless the
\* read of the dataset itself fails.
C2_ReloadAfterClear ==
    [][(last.op = "cache" /\ last'.op = "departments")
        => /\ last'.produced
           /\ \/ last'.status = 200
              \/ last'.body = Some([error |-> "Failed to read departments"])]_vars

\* C3: in the remote-fetch handler, once the temp file has been written it does
\* not exist any more when the handler has completed.
C3_TempFileDeleted ==
    (rev = "part_001" /\ last.op = "municipalities" /\ last.wrote) => ~last.tmpExists

\* C4: a GET /api/municipalities/:code that is answered 404 or 500 has left the
\* whole cache as it was: the entry of its code, stale or not, is the one that
\* was there; and every stored entry holds a feature collection.
C4_FailureLeavesCache ==
    /\ (last.op = "municipalities" /\ last.status \in {404, 500})
        => /\ ~last.stored
           /\ (last.priorAge >= 0) = (last.code \in DOMAIN cache.municipalities)
    /\ \A k \in DOMAIN cache.municipalities :
          cache.municipalities[k].data.type = "FeatureCollection"

\* C4 witness: a request for a code with a stale entry failed, and the entry is there.
C4_Witness ==
    /\ last.op = "municipalities"
    /\ last.status \in {404, 500}
    /\ last.priorAge >= CACHE_EXPIRY
    /\ last.code \in DOMAIN cache.municipalities

\* C5: a request for a key whose entry is younger than the expiry time is
\* answered 200 with exactly the stored value, takes no production path, opens
\* no dataset and leaves the cache alone; and the value a municipalities request
\* was answered with is the value the cache holds for its code.
C5_HitServesStored ==
    /\ (last.op \in GetOps /\ last.priorAge >= 0 /\ last.priorAge < CACHE_EXPIRY)
        => /\ last.status = 200
           /\ ~last.produced /\ ~last.opened /\ ~last.stored
           /\ last.age = last.priorAge
           /\ last.body = IF last.op = "departments" THEN cache.departments
                          ELSE Some(cache.municipalities[last.code].data)
    /\ (last.op = "municipalities" /\ last.status = 200 /\ rev # "part_001")
        => /\ last.code \in DOMAIN cache.municipalities
           /\ last.body = Some(cache.municipalities[last.code].data)

\* C5 witness: a request was served from an entry produced at an earlier time.
C5_Witness ==
    /\ last.op = "municipalities"
    /\ last.status = 200
    /\ ~last.produced
    /\ last.priorAge > 0
    /\ last.body = Some(cache.municipalities[last.code].data)

\* C6: a GET /api/municipalities/:code that finds no dataset for the code is
\* answered 404 with the body {error: "Municipality data not found"}.
C6_NotFoundIs404 ==
    (last.op = "municipalities" /\ last.found = "no")
    => /\ last.status = 404
       /\ last.body = Some([error |-> "Municipality data not found"])

\* C7: for a code that was cached when DELETE /api/cache ran, within one expiry
\* time of the first request after the DELETE exactly one request has taken the
\* production path, the first, and the entry it stored is still the entry.
C7_OneProductionAfterClear ==
    \A k \in Codes :
        (/\ afterClear[k].armed
         /\ afterClear[k].first # None
         /\ now - afterClear[k].first[1] < CACHE_EXPIRY)
        => /\ afterClear[k].prods = 1
           /\ afterClear[k].firstProduced
           /\ k \in DOMAIN cache.municipalities
           /\ cache.municipalities[k].timestamp = afterClear[k].first[1]

\* C7 witness: after the DELETE and the first request, a later request in the
\* window was served from the new entry.
C7_Witness ==
    /\ last.op = "municipalities"
    /\ ~last.produced
    /\ last.status = 200
    /\ afterClear[last.code].armed
    /\ afterClear[last.code].first # None
    /\ now > afterClear[last.code].first[1]
    /\ now - afterClear[last.code].first[1] < CACHE_EXPIRY

\* C8: a GET /api/municipalities/:code of the remote-fetch handler whose remote
\* object exists and is read is answered 200, once, and has written its temp
\* file and left no temp file behind when it completes.
C8_RemoteFetchCleansUp ==
    (rev = "part_001" /\ last.op = "municipalities" /\ last.found = "yes"
        /\ last.opened /\ last.status = 200)
    => (last.wrote /\ last.sends = 1 /\ ~last.tmpExists)

\* C9: a request that opened a dataset has closed it when it completes.
C9_HandleClosed ==
    (last.op \in GetOps /\ last.opened) => last.closed

\* C10: every request is answered exactly once, with 200, 404 or 500, and never
\* attempts a second response.
C10_AnsweredOnce ==
    (last.op \in GetOps \cup {"cache"})
    => (last.sends = 1 /\ last.status \in {200, 404, 500})

\* C11: after a production that failed (a municipalities request answered 404 or
\* 500 on the production path, a departments request answered 500 on it, or the
\* departments preload at startup), the next request for that key takes the
\* production path again.
C11_FailureIsTransient ==
    [][/\ (/\ last.op = "municipalities" /\ last.produced /\ last.status # 200
           /\ last'.op = "municipalities" /\ last'.code = last.code
           /\ last' # last)
          => last'.produced
       /\ (/\ \/ last.op = "departments" /\ last.produced /\ last.status # 200
              \/ last.op = "startup" /\ rev = "index.js" /\ cache.departments = None
           /\ last'.op = "departments")
          => last'.produced]_vars

\* C12: at most one request per department code is between the start of its
\* remote fetch and the end of its handler.
C12_OneInFlightPerCode ==
    \A k \in Codes :
        Cardinality({r \in ReqIds : reqs[r].pc # "idle" /\ reqs[r].code = k}) <= 1

\* C13: the timestamp stored for a key never decreases from one step to the
\* next, and a request that is answered 200 is answered with the entry that is
\* stored when it completes, whose timestamp is not smaller than that of the
\* entry that was stored when it arrived.
C13_ProducedAtMonotone ==
    [][/\ \A k \in DOMAIN cache.municipalities \cap DOMAIN cache'.municipalities :
             cache'.municipalities[k].timestamp >= cache.municipalities[k].timestamp
       /\ (cache.lastUpdated # None /\ cache'.lastUpdated # None)
          => cache'.lastUpdated[1] >= cache.lastUpdated[1]
       /\ (now' = now /\ rev # "part_001" /\ last'.status = 200
              /\ last'.op = "municipalities")
          => /\ last'.code \in DOMAIN cache'.municipalities
             /\ cache'.municipalities[last'.code].timestamp = now - last'.age
             /\ last'.code \in DOMAIN cache.municipalities
                => now - last'.age >= cache.municipalities[last'.code].timestamp
       /\ (now' = now /\ rev # "part_001" /\ last'.status = 200
              /\ last'.op = "departments")
          => /\ cache'.lastUpdated = Some(now - last'.age)
             /\ cache.lastUpdated # None
                => now - last'.age >= cache.lastUpdated[1]]_vars

\* C13 witness: a request was answered with an entry newer than the one that
\* was stored for its code when it arrived.
C13_Witness ==
    /\ last.op = "municipalities"
    /\ last.status = 200
    /\ last.priorAge > 0
    /\ last.age = 0
    /\ last.code \in DOMAIN cache.municipalities
    /\ cache.municipalities[last.code].timestamp > TickMs

C15_StaleEntryReplaced ==
    [][(/\ now' = now
        /\ rev # "part_001"
        /\ last'.op = "municipalities"
        /\ last'.status = 200
        /\ last'.code \in DOMAIN cache.municipalities
        /\ now - cache.municipalities[last'.code].timestamp >= CACHE_EXPIRY)
       => /\ last'.produced
          /\ last'.age = 0
          /\ DOMAIN cache'.municipalities = DOMAIN cache.municipalities
          /\ cache'.municipalities =
                [cache.municipalities EXCEPT
                    ![last'.code] = [data |-> last'.body[1], timestamp |-> now]]]_vars

\* C15 witness: a stale entry was replaced by one with another value.
C15_Witness ==
    /\ last.op = "municipalities"
    /\ last.status = 200
    /\ last.priorAge >= CACHE_EXPIRY
    /\ last.stored
    /\ cache.municipalities[last.code].timestamp = now
    /\ cache.municipalities[last.code].data.features # <<>>
    /\ Cardinality(DOMAIN cache.municipalities) = 2

\* C16: a step that removes a municipalities entry or the departments value is
\* a DELETE /api/cache and leaves nothing in either family; no other request,
\* whether it succeeds or fails, and no passing of time removes an entry.
C16_OnlyClearRemoves ==
    /\ [][(\/ ~(DOMAIN cache.municipalities \subseteq DOMAIN cache'.municipalities)
           \/ (cache.departments # None /\ cache'.departments = None))
          => (last'.op = "cache" /\ cache' = EmptyCache)]_vars
    /\ [](last.op = "cache" => cache = EmptyCache)

\* C16 witness: a request for a code with a stale entry failed with 500 after
\* the clock ran past the expiry time, and both codes still have their entries.
C16_Witness ==
    /\ last.op = "municipalities"
    /\ last.status = 500
    /\ last.priorAge > CACHE_EXPIRY
    /\ DOMAIN cache.municipalities = Codes

\* C17: a GET /api/municipalities/:code changes at most the cache entry of that
\* code: the entry of every other code, the departments value and lastUpdated
\* are as before; a GET /api/departments changes no municipalities entry.
C17_OtherKeysUntouched ==
    [][/\ (now' = now /\ rev # "part_001" /\ last'.op = "municipalities")
          => /\ \A k \in Codes \ {last'.code} :
                    MapGet(cache'.municipalities, k) = MapGet(cache.municipalities, k)
             /\ cache'.departments = cache.departments
             /\ cache'.lastUpdated = cache.lastUpdated
       /\ (now' = now /\ rev # "part_001" /\ last'.op = "departments")
          => cache'.municipalities = cache.municipalities]_vars

\* C17 witness: a municipalities request has just stored its entry while the
\* other code holds an older entry and the departments value is cached.
C17_Witness ==
    /\ last.op = "municipalities"
    /\ last.stored
    /\ cache.departments # None
    /\ cache.lastUpdated # None
    /\ \E k \in DOMAIN cache.municipalities \ {last.code} :
          cache.municipalities[k].timestamp < cache.municipalities[last.code].timestamp

\* C18: in the remote-fetch handler every interleaving of the requests at the
\* fetch and at the body read leaves the temp-file part of each request whole:
\* only the step that ends a request at its body read touches a temp file, and
\* only the one of its own code; it opens and deletes only a file it has just
\* written, and a 200 answer carries the features of the bytes that request
\* downloaded, whatever other requests for the same code are in flight.
C18_TempFileStepWhole ==
    [][/\ \A r \in ReqIds :
             (rev = "part_001" /\ reqs[r].pc = "body" /\ reqs'[r].pc = "idle")
             => /\ \A k \in Codes \ {reqs[r].code} : tmpFiles'[k] = tmpFiles[k]
                /\ tmpFiles'[reqs[r].code] \in {None, reqs[r].buffer, tmpFiles[reqs[r].code]}
                /\ last'.op = "municipalities" /\ last'.code = reqs[r].code
                /\ last'.opened => last'.wrote
                /\ (tmpFiles'[reqs[r].code] # tmpFiles[reqs[r].code]) => last'.wrote
                /\ last'.status = 200
                   => last'.body = Some(FeatureCollection(
                                           readFeaturesFromLayer(reqs[r].buffer[1])))
       /\ (\A r \in ReqIds : ~(reqs[r].pc = "body" /\ reqs'[r].pc = "idle"))
          => tmpFiles' = tmpFiles]_vars

\* C18 witness: a request was answered 200 and deleted its temp file while a
\* second request for the same code, holding other bytes, waits at its body
\* read with no temp file on disk.
C18_Witness ==
    /\ rev = "part_001"
    /\ last.op = "municipalities"
    /\ last.status = 200
    /\ last.sends = 1
    /\ tmpFiles[last.code] = None
    /\ \E r \in ReqIds :
          /\ reqs[r].pc = "body"
          /\ reqs[r].code = last.code
          /\ FeatureCollection(readFeaturesFromLayer(reqs[r].buffer[1])) # last.body[1]

====
